---- MODULE Spec2Model ----
(***************************************************************************)
(* MosaicRetriever: the dense indexing-and-search pipeline.                *)
(*   src/MosaicRetriever/src/dense.py  DenseIndexer, DenseSearcher         *)
(*   src/MosaicRetriever/src/api.py    UniSearchAPI                        *)
(* Strings are sequences of characters, an Optional value is a sequence of *)
(* length 0 (None, or an absent file) or 1.                                *)
(***************************************************************************)
EXTENDS Integers, Sequences, FiniteSets

VARIABLES
    dirExists,   \* index_dir exists on disk
    indexFile,   \* index.faiss: <<>> when absent, else <<serialized index>>
    docidsFile,  \* docids.txt:  <<>> when absent, else <<its characters>>
    metaFile,    \* meta.json:   <<>> when absent, else <<record>>
    indexer,     \* a DenseIndexer: [index, docids, model]
    dense,       \* <<>>, or <<the DenseSearcher's indexer>> once constructed
    last         \* the last call made and how it ended

vars == <<dirExists, indexFile, docidsFile, metaFile, indexer, dense, last>>
disk == <<dirExists, indexFile, docidsFile, metaFile>>

(***************************************************************************)
(* Bounds of the model.                                                    *)
(***************************************************************************)
MaxDocs == 2
MaxChunk == 2
MaxLimit == 2
MaxK == 3

None == <<>>
Some(x) == <<x>>

\* what a later call records of the call l before it
Brief(l) == IF l.op = "facade" THEN <<l.op, l.ok, l.path>> ELSE <<l.op, l.ok>>

(***************************************************************************)
(* Strings.                                                                *)
(***************************************************************************)
IsSpace(c) == c \in {" ", "\n"}

RECURSIVE lstrip(_)
lstrip(s) ==
    IF s = <<>> THEN <<>>
    ELSE IF IsSpace(Head(s)) THEN lstrip(Tail(s)) ELSE s

RECURSIVE rstrip(_)
rstrip(s) ==
    IF s = <<>> THEN <<>>
    ELSE IF IsSpace(s[Len(s)]) THEN rstrip(SubSeq(s, 1, Len(s) - 1)) ELSE s

\* str.strip()
strip(s) == rstrip(lstrip(s))

\* DenseIndexer._merge_text
merge_text(title, text) ==
    LET t == strip(title)
        x == strip(text)
    IN  IF t # <<>> /\ x # <<>> THEN t \o <<"\n">> \o x
        ELSE IF t # <<>> THEN t ELSE x

RECURSIVE Count(_, _)
Count(s, c) ==
    IF s = <<>> THEN 0
    ELSE (IF Head(s) = c THEN 1 ELSE 0) + Count(Tail(s), c)

(***************************************************************************)
(* The embedding model, a deterministic function of the text: here the     *)
(* vector <<number of "a", number of "b">>.                                *)
(***************************************************************************)
Dim == Cardinality({"a", "b"})

encode_one(text) == <<Count(text, "a"), Count(text, "b")>>

\* SentenceTransformer.encode(texts): one row per text, in order
encode(texts) == [i \in 1..Len(texts) |-> encode_one(texts[i])]

(***************************************************************************)
(* The vector index (faiss.IndexFlatIP): its width d and its rows in       *)
(* append order.                                                           *)
(***************************************************************************)
IndexFlatIP(d) == [d |-> d, rows |-> <<>>]

add(index, embeddings) == [index EXCEPT !.rows = @ \o embeddings]

ntotal(index) == Len(index.rows)

\* inner product
Dot(u, v) == u[1] * v[1] + u[2] * v[2]

(***************************************************************************)
(* The inputs.                                                             *)
(***************************************************************************)
\* (doc_id, title, text)
Doc1 == << <<"a">>, <<"a">>, <<"b">> >>
Doc2 == << <<" ", "b">>, <<" ">>, <<"a", "a", " ">> >>
Docs == {Doc1, Doc2}

RECURSIVE SeqsUpTo(_, _)
SeqsUpTo(S, n) ==
    IF n = 0 THEN {<<>>}
    ELSE LET shorter == SeqsUpTo(S, n - 1)
         IN  shorter \cup {Append(s, x) : s \in shorter, x \in S}

Corpora == SeqsUpTo(Docs, MaxDocs)
Limits == {None} \cup {Some(l) : l \in 0..MaxLimit}
ChunkSizes == 1..MaxChunk

(***************************************************************************)
(* DenseIndexer.build_from_corpus: the run of the loop over the input.     *)
(* A run state holds the local index, the doc-id list, the two buffers and *)
(* the number of items read from the input.                                *)
(***************************************************************************)
\* flush, putting the buffer's doc_ids before the ones already listed
flush_prepend(st) ==
    IF st.buf_texts = <<>> THEN st
    ELSE LET embeddings == encode(st.buf_texts)
             index == IF st.index = None THEN IndexFlatIP(Dim) ELSE st.index[1]
         IN  [st EXCEPT !.index = Some(add(index, embeddings)),
                        !.docids = st.buf_ids \o @,
                        !.buf_texts = <<>>,
                        !.buf_ids = <<>>]

flush(st) ==
    IF st.buf_texts = <<>> THEN st
    ELSE LET embeddings == encode(st.buf_texts)
             index == IF st.index = None THEN IndexFlatIP(Dim) ELSE st.index[1]
         IN  [st EXCEPT !.index = Some(add(index, embeddings)),
                        !.docids = @ \o st.buf_ids,
                        !.buf_texts = <<>>,
                        !.buf_ids = <<>>]

LimitReached(limit, read) == limit # None /\ read >= limit[1]

RECURSIVE consume(_, _, _, _)
consume(st, docs, limit, chunk_size) ==
    IF st.read = Len(docs) THEN st
    ELSE LET d == docs[st.read + 1]
             s1 == [st EXCEPT !.buf_ids = Append(@, d[1]),
                              !.buf_texts = Append(@, merge_text(d[2], d[3])),
                              !.read = @ + 1]
             s2 == IF Len(s1.buf_texts) >= chunk_size THEN flush(s1) ELSE s1
         IN  IF LimitReached(limit, s2.read) THEN s2
             ELSE consume(s2, docs, limit, chunk_size)

build_run(docs, limit, chunk_size) ==
    flush(consume([index |-> None, docids |-> <<>>, buf_ids |-> <<>>,
                   buf_texts |-> <<>>, read |-> 0],
                  docs, limit, chunk_size))

\* the indexer after build_from_corpus; the index is assigned only on success
built(ix, run) ==
    [index |-> IF run.index = None THEN ix.index ELSE run.index,
     docids |-> run.docids,
     model |-> TRUE]

build_from_corpus(docs, limit, chunk_size) ==
    LET run == build_run(docs, limit, chunk_size)
    IN  /\ dirExists' = TRUE
        /\ indexer' = built(indexer, run)
        /\ last' = [op |-> "build", ok |-> run.index # None,
                    prev |-> Brief(last),
                    docs |-> docs, limit |-> limit, chunk_size |-> chunk_size,
                    read |-> run.read]
        /\ UNCHANGED <<indexFile, docidsFile, metaFile, dense>>

(***************************************************************************)
(* The three artifacts.                                                    *)
(***************************************************************************)
RECURSIVE Flatten(_)
Flatten(rows) == IF rows = <<>> THEN <<>> ELSE Head(rows) \o Flatten(Tail(rows))

\* faiss.write_index: the width, the count and the rows' numbers in one run
write_index(index) ==
    [d |-> index.d, ntotal |-> ntotal(index), xb |-> Flatten(index.rows)]

\* faiss.read_index
read_index(f) ==
    [d |-> f.d,
     rows |-> [i \in 1..f.ntotal |-> SubSeq(f.xb, (i - 1) * f.d + 1, i * f.d)]]

RECURSIVE write_docids(_)
write_docids(docids) ==
    IF docids = <<>> THEN <<>>
    ELSE Head(docids) \o <<"\n">> \o write_docids(Tail(docids))

\* the lines of a text file, as iterating over it yields them
RECURSIVE Lines(_, _)
Lines(s, cur) ==
    IF s = <<>> THEN (IF cur = <<>> THEN <<>> ELSE <<cur>>)
    ELSE IF Head(s) = "\n" THEN <<Append(cur, "\n")>> \o Lines(Tail(s), <<>>)
    ELSE Lines(Tail(s), Append(cur, Head(s)))

read_docids(content) ==
    LET ls == Lines(content, <<>>)
    IN  [i \in 1..Len(ls) |-> strip(ls[i])]

meta(ix) == [model |-> "multi-qa-mpnet-base-dot-v1", size |-> Len(ix.docids),
             type |-> "IndexFlatIP"]

\* the three files save() writes for the indexer ix
saved(ix) ==
    <<Some(write_index(ix.index[1])), Some(write_docids(ix.docids)), Some(meta(ix))>>

\* a call and how it ended (ok: it returned without raising), with the call
\* made before it
Call(op, ok) == [op |-> op, ok |-> ok, prev |-> Brief(last)]

\* DenseIndexer.save
save ==
    IF indexer.index = None
    THEN /\ last' = Call("save", FALSE)
         /\ UNCHANGED <<disk, indexer, dense>>
    ELSE /\ dirExists' = TRUE
         /\ indexFile' = saved(indexer)[1]
         /\ docidsFile' = saved(indexer)[2]
         /\ metaFile' = saved(indexer)[3]
         /\ last' = Call("save", TRUE)
         /\ UNCHANGED <<indexer, dense>>

\* DenseIndexer.load on the indexer ix, over the files iFile and dFile: a
\* missing index.faiss raises before anything is assigned, a missing
\* docids.txt after the index is assigned and the doc-id list emptied
loaded(ix, iFile, dFile) ==
    IF iFile = None THEN ix
    ELSE IF dFile = None
    THEN [ix EXCEPT !.index = Some(read_index(iFile[1])), !.docids = <<>>]
    ELSE [ix EXCEPT !.index = Some(read_index(iFile[1])),
                    !.docids = read_docids(dFile[1])]

\* load taken to return whenever index.faiss could be read
load_ok_index_only(iFile, dFile) == iFile # None

load_ok(iFile, dFile) == iFile # None /\ dFile # None

load ==
    /\ indexer' = loaded(indexer, indexFile, docidsFile)
    /\ last' = Call("load", load_ok(indexFile, docidsFile))
    /\ UNCHANGED <<disk, dense>>

(***************************************************************************)
(* The life of one DenseIndexer over one directory.                        *)
(***************************************************************************)
NewIndexer == [index |-> None, docids |-> <<>>, model |-> FALSE]

Init ==
    /\ dirExists = FALSE
    /\ indexFile = None
    /\ docidsFile = None
    /\ metaFile = None
    /\ indexer = NewIndexer
    /\ dense = None
    /\ last = [op |-> "new", ok |-> TRUE, prev |-> <<"none", TRUE>>]

\* the default of build_from_corpus's chunk_size parameter
chunk_size_default == 8192

Build == \E docs \in Corpora :
            build_from_corpus(docs, None, chunk_size_default)

Next == Build \/ save \/ load

Spec == Init /\ [][Next]_vars

(***************************************************************************)
(* build_from_corpus under every limit and chunk size, on one indexer.     *)
(***************************************************************************)
BuildAny == \E docs \in Corpora, limit \in Limits,
               chunk_size \in ChunkSizes \cup {chunk_size_default} :
               build_from_corpus(docs, limit, chunk_size)

SpecBuild == Init /\ [][BuildAny]_vars

(***************************************************************************)
(* DenseSearcher.                                                          *)
(***************************************************************************)
Queries == {<<"a">>, <<"b">>}
Ks == 1..MaxK

\* DenseSearcher.__init__: a fresh DenseIndexer, loaded; a load that raises
\* leaves no searcher constructed
DenseSearcher ==
    /\ dense' = IF load_ok(indexFile, docidsFile)
                THEN Some(loaded(NewIndexer, indexFile, docidsFile))
                ELSE dense
    /\ last' = Call("searcher", load_ok(indexFile, docidsFile))
    /\ UNCHANGED <<disk, indexer>>

\* faiss IndexFlatIP.search: the k best rows by inner product, best first (of
\* equal scores the earlier row first), as 0-based row numbers; when the
\* index holds fewer than k rows the rest is row -1 with the lowest score
RECURSIVE top_k(_, _, _, _)
top_k(rows, q, k, taken) ==
    IF k = 0 THEN <<>>
    ELSE LET left == (1..Len(rows)) \ taken
         IN  IF left = {}
             THEN <<[row |-> -1, score |-> -1]>> \o top_k(rows, q, k - 1, taken)
             ELSE LET best == CHOOSE i \in left : \A j \in left :
                                  \/ Dot(rows[i], q) > Dot(rows[j], q)
                                  \/ Dot(rows[i], q) = Dot(rows[j], q) /\ i <= j
                  IN  <<[row |-> best - 1, score |-> Dot(rows[best], q)]>>
                          \o top_k(rows, q, k - 1, taken \cup {best})

index_search(index, q, k) == top_k(index.rows, q, k, {})

\* the test without its i < 0 half
skipped_high_only(i, docids) == i >= Len(docids)

\* the test of search's loop that skips a row
skipped(i, docids) == i < 0 \/ i >= Len(docids)

\* list[i] in Python: <<the item>>, or None where it raises IndexError
getitem(list, i) ==
    IF 0 <= i /\ i < Len(list) THEN Some(list[i + 1])
    ELSE IF i < 0 /\ -i <= Len(list) THEN Some(list[Len(list) + i + 1])
    ELSE None

\* the loop of search over the rows the index returned
RECURSIVE collect(_, _, _)
collect(hits, docids, results) ==
    IF hits = <<>> THEN [ok |-> TRUE, results |-> results]
    ELSE LET h == Head(hits)
         IN  IF skipped(h.row, docids) THEN collect(Tail(hits), docids, results)
             ELSE IF getitem(docids, h.row) = None
             THEN [ok |-> FALSE, results |-> <<>>]
             ELSE collect(Tail(hits), docids,
                          Append(results, [docid |-> getitem(docids, h.row)[1],
                                           score |-> h.score]))

\* search asking the index for one row more than k
search_run_one_more(sx, query, k) ==
    collect(index_search(sx.index[1], encode_one(query), k + 1), sx.docids, <<>>)

\* DenseSearcher.search on the searcher's indexer sx
search_run(sx, query, k) ==
    collect(index_search(sx.index[1], encode_one(query), k), sx.docids, <<>>)

search(query, k) ==
    /\ dense # None
    /\ LET out == search_run(dense[1], query, k)
       IN  last' = [op |-> "search", ok |-> out.ok, prev |-> Brief(last),
                    query |-> query, k |-> k, results |-> out.results]
    /\ UNCHANGED <<disk, indexer, dense>>

Search == \E query \in Queries, k \in Ks : search(query, k)

(***************************************************************************)
(* UniSearchAPI.                                                           *)
(***************************************************************************)
\* a document table: a dict, so no doc_id twice; gen_docs yields its items in
\* insertion order
Tables == {c \in Corpora : \A i, j \in 1..Len(c) : c[i][1] = c[j][1] => i = j}

\* the test looking for the index under a file name save never writes
index_exists_other_name == None # None

\* (self.faiss_dir / "index.faiss").exists()
index_exists == indexFile # None

\* UniSearchAPI.__init__ with _build_dense_index (the lexical searcher is
\* taken to construct)
UniSearchAPI(corpus, dense_limit) ==
    LET run == build_run(corpus, dense_limit, chunk_size_default)
        ix == built(NewIndexer, run)
    IN  /\ dirExists' = TRUE
        /\ IF index_exists
           THEN /\ UNCHANGED <<indexFile, docidsFile, metaFile>>
                /\ dense' = IF load_ok(indexFile, docidsFile)
                            THEN Some(loaded(NewIndexer, indexFile, docidsFile))
                            ELSE dense
                /\ last' = [op |-> "facade", ok |-> load_ok(indexFile, docidsFile),
                            prev |-> Brief(last), path |-> "load"]
           ELSE IF run.index = None
           THEN /\ UNCHANGED <<indexFile, docidsFile, metaFile, dense>>
                /\ last' = [op |-> "facade", ok |-> FALSE,
                            prev |-> Brief(last), path |-> "build"]
           ELSE /\ indexFile' = saved(ix)[1]
                /\ docidsFile' = saved(ix)[2]
                /\ metaFile' = saved(ix)[3]
                /\ dense' = Some(loaded(NewIndexer, saved(ix)[1], saved(ix)[2]))
                /\ last' = [op |-> "facade", ok |-> TRUE,
                            prev |-> Brief(last), path |-> "build"]
        /\ UNCHANGED indexer

Facade == \E corpus \in Tables, dense_limit \in Limits :
              UniSearchAPI(corpus, dense_limit)

(***************************************************************************)
(* A directory that a DenseIndexer prepares, then searchers and facades    *)
(* constructed over it and queried.                                        *)
(***************************************************************************)
Prepare == dense = None /\ last.op \notin {"searcher", "facade"} /\ Next

NextSearch == Prepare \/ DenseSearcher \/ Facade \/ Search

SpecSearch == Init /\ [][NextSearch]_vars

(***************************************************************************)
(* load, DenseSearcher and UniSearchAPI over a directory found as it is:   *)
(* each of the three files there or not, those there being what save()     *)
(* wrote for some built indexer.                                           *)
(***************************************************************************)
InitLoad ==
    \E docs \in Corpora \ {<<>>}, hasIndex, hasDocids, hasMeta, hasDir \in BOOLEAN :
        LET ix == built(NewIndexer, build_run(docs, None, chunk_size_default))
        IN  /\ dirExists = (hasDir \/ hasIndex \/ hasDocids \/ hasMeta)
            /\ indexFile = IF hasIndex THEN saved(ix)[1] ELSE None
            /\ docidsFile = IF hasDocids THEN saved(ix)[2] ELSE None
            /\ metaFile = IF hasMeta THEN saved(ix)[3] ELSE None
            /\ indexer = NewIndexer
            /\ dense = None
            /\ last = [op |-> "new", ok |-> TRUE, prev |-> <<"none", TRUE>>]

NextLoad == load \/ DenseSearcher \/ Facade

SpecLoad == InitLoad /\ [][NextLoad]_vars

(***************************************************************************)
(* The claims.                                                             *)
(***************************************************************************)
Min(a, b) == IF a <= b THEN a ELSE b

\* the doc_ids and the merged texts of an input, in input order
ids(docs) == [i \in 1..Len(docs) |-> docs[i][1]]
texts(docs) == [i \in 1..Len(docs) |-> merge_text(docs[i][2], docs[i][3])]

NonIncreasing(scores) ==
    \A i, j \in 1..Len(scores) : i < j => scores[i] >= scores[j]

\* C1: every save() that returns without error leaves the directory with
\* number of lines of docids.txt = number of vectors in index.faiss =
\* the "size" of meta.json, whatever build, load and save calls came before.
C1_SaveConsistent ==
    (last.op = "save" /\ last.ok) =>
        /\ Len(Lines(docidsFile[1], <<>>)) = indexFile[1].ntotal
        /\ indexFile[1].ntotal = metaFile[1].size

\* C2: after a build_from_corpus or a load that returns without error the
\* doc-id list is as long as the index has vectors.
C2_OrderInvariant ==
    (last.op \in {"build", "load"} /\ last.ok) =>
        Len(indexer.docids) = ntotal(indexer.index[1])

\* C3: a build of a non-empty input without limit succeeds and gives the
\* input's doc_ids in input order and, as row i, the embedding of the merged
\* text of document i; a run with any other chunk size gives the same
\* doc-id list and the same rows.
C3_ChunkingTransparency ==
    (last.op = "build" /\ last.limit = None /\ last.docs # <<>>) =>
        /\ last.ok
        /\ indexer.docids = ids(last.docs)
        /\ indexer.index[1].rows =
               [i \in 1..Len(last.docs) |-> encode_one(texts(last.docs)[i])]
        /\ \A c2 \in ChunkSizes \cup {chunk_size_default} :
               LET other == build_run(last.docs, None, c2)
               IN  /\ other.docids = indexer.docids
                   /\ other.index = indexer.index

\* C3's case: two documents with different texts, flushed one at a time
C3_Witness ==
    /\ last.op = "build" /\ last.ok /\ last.limit = None
    /\ last.chunk_size = 1
    /\ Len(last.docs) = MaxDocs
    /\ indexer.index[1].rows[1] # indexer.index[1].rows[MaxDocs]
    /\ indexer.docids[1] # indexer.docids[MaxDocs]

\* C4: with limit = L >= 0 and n input documents, exactly min(L, n) items are
\* read and the doc-id list is the first min(L, n) input doc_ids.
C4_LimitReads ==
    (last.op = "build" /\ last.limit # None) =>
        LET m == Min(last.limit[1], Len(last.docs))
        IN  /\ last.read = m
            /\ indexer.docids = SubSeq(ids(last.docs), 1, m)

\* C5: a build of an empty input raises, and a save() called next on the
\* same indexer fails and writes none of the three files.
C5_EmptyBuildThenSave ==
    [][(last.op = "build" /\ last.docs = <<>>) =>
          /\ ~last.ok
          /\ last'.op = "save" =>
                 /\ ~last'.ok
                 /\ <<indexFile, docidsFile, metaFile>>' =
                        <<indexFile, docidsFile, metaFile>>]_vars

\* C6: after build_from_corpus, save() and load() on a fresh indexer over the
\* same directory, the reloaded doc-id list and rows are the built ones, and
\* search gives the same (doc_id, score) pairs in the same order on both.
C6_RoundTrip ==
    [][(/\ last.op = "save" /\ last.ok /\ last.prev = <<"build", TRUE>>
        /\ last'.op = "searcher") =>
          /\ last'.ok
          /\ dense'[1].docids = indexer.docids
          /\ dense'[1].index = indexer.index
          /\ \A q \in Queries, k \in Ks :
                 search_run(dense'[1], q, k) = search_run(indexer, q, k)]_vars

\* the searcher and the three files agree: the doc-id list is the one
\* docids.txt holds, the vector count is index.faiss's and meta.json's "size"
InSync ==
    /\ dense # None /\ indexFile # None /\ docidsFile # None /\ metaFile # None
    /\ dense[1].docids = read_docids(docidsFile[1])
    /\ ntotal(dense[1].index[1]) = indexFile[1].ntotal
    /\ ntotal(dense[1].index[1]) = metaFile[1].size
    /\ Len(dense[1].docids) = metaFile[1].size

\* C7: the facade constructor loads, and writes none of the three files, when
\* index.faiss exists, and else builds, saves and loads; when it completes
\* the searcher and the files on disk agree.
C7_FacadeInSync ==
    [][last'.op = "facade" =>
          /\ last'.path = (IF indexFile # None THEN "load" ELSE "build")
          /\ last'.path = "load" =>
                 <<indexFile, docidsFile, metaFile>>' =
                     <<indexFile, docidsFile, metaFile>>
          /\ last'.ok => InSync']_vars

\* C8: a facade constructed right after one that built and saved the index
\* loads only: its searcher has the first one's doc-id list and rows, every
\* search answers the same on both, and the disk is left as it was.
C8_FacadeIdempotent ==
    [][(/\ last.op = "facade" /\ last.ok /\ last.path = "build"
        /\ last'.op = "facade") =>
          /\ last'.ok /\ last'.path = "load"
          /\ dense'[1].docids = dense[1].docids
          /\ dense'[1].index = dense[1].index
          /\ \A q \in Queries, k \in Ks :
                 search_run(dense'[1], q, k) = search_run(dense[1], q, k)
          /\ disk' = disk]_vars

\* C8's case: the second construction, over the index the first one built
C8_Witness ==
    /\ last.op = "facade" /\ last.ok /\ last.path = "load"
    /\ last.prev = <<"facade", TRUE, "build">>
    /\ Len(dense[1].docids) = MaxDocs

\* the rows the index returns for the last search
LastHits == index_search(dense[1].index[1], encode_one(last.query), last.k)

InRange(h) == 0 <= h.row /\ h.row < Len(dense[1].docids)

\* C9: search returns, without raising, the rows of the index's answer that
\* lie in 0 .. len(docids) - 1, in the index's order, each as
\* (docids[row], score); the scores are non-increasing when the index's are.
C9_SearchMapsRows ==
    last.op = "search" =>
        LET kept == SelectSeq(LastHits, InRange)
        IN  /\ last.ok
            /\ last.results =
                   [i \in 1..Len(kept) |->
                       [docid |-> dense[1].docids[kept[i].row + 1],
                        score |-> kept[i].score]]
            /\ NonIncreasing([i \in 1..Len(LastHits) |-> LastHits[i].score])
                   => NonIncreasing([i \in 1..Len(last.results) |->
                                        last.results[i].score])

\* C9's case: rows kept, of different scores, and the -1 row dropped
C9_Witness ==
    /\ last.op = "search"
    /\ \E i \in 1..Len(LastHits) : LastHits[i].row = -1
    /\ Len(last.results) >= 2
    /\ last.results[1].score > last.results[2].score

\* C10: search returns at most k results, and exactly min(k, n) when the
\* doc-id list has as many entries as the index has vectors (n).
C10_TopKBound ==
    last.op = "search" =>
        LET n == ntotal(dense[1].index[1])
        IN  /\ Len(last.results) <= last.k
            /\ Len(dense[1].docids) = n => Len(last.results) = Min(last.k, n)

\* C10's case: an index of more than k vectors, cut at k
C10_Witness ==
    /\ last.op = "search"
    /\ Len(dense[1].docids) = ntotal(dense[1].index[1])
    /\ last.k < ntotal(dense[1].index[1])
    /\ Len(last.results) = last.k

\* C11: load() raises whenever index.faiss or docids.txt is absent (one of
\* them or both), and so do the construction of a DenseSearcher and the
\* facade's load path, which then construct no searcher.
C11_MissingArtifact ==
    [][(/\ last'.op \in {"load", "searcher", "facade"}
        /\ last'.op = "facade" => last'.path = "load"
        /\ indexFile = None \/ docidsFile = None) =>
          /\ ~last'.ok
          /\ dense' = dense]_vars

\* C11's case: a load over a directory that holds index.faiss and no
\* docids.txt, which raised after the index was read
C11_Witness ==
    /\ last.op = "load" /\ ~last.ok
    /\ indexFile # None /\ docidsFile = None
    /\ indexer.index # None /\ indexer.docids = <<>>

\* C12: build_from_corpus leaves the file system as it was, the existence of
\* the index directory and of the three files included, whether it returns
\* or raises.
C12_BuildInMemory ==
    [][last'.op = "build" => disk' = disk]_vars

====
